---- MODULE Spec2Model ----
(***************************************************************************)
(* A model of the bagins Bag: bag.go (NewBag, AddFile, AddDir, AddTagfile, *)
(* Save, ListFiles; ReadBag and findManifests under SpecRead) and the      *)
(* earlier single-manifest Bag of unnamed/part_000 (Close, TrackedFiles,   *)
(* ConfirmFiles, Orphans).                                                 *)
(* File names are sequences of one-character strings so that               *)
(* strings.HasPrefix, filepath.Join, filepath.Dir and filepath.Rel are     *)
(* computed on characters, as the Go code computes them.                   *)
(***************************************************************************)
EXTENDS Integers, Sequences, FiniteSets, TLC

(* ------------------------------ bounds --------------------------------- *)
\* Number of API calls made on a bag after its construction.
MaxOps == 2
\* Number of fields a tag file's Data may hold.
MaxFields == 3
\* Number of I/O faults the file system injects.
MaxFaults == 1

(* ------------------------------ strings -------------------------------- *)
\* The characters that occur in the model's file names, in byte order.
Alphabet == <<"-", ".", "/", "1", "5", "a", "b", "d", "e", "f", "g", "h", "i",
              "m", "n", "o", "r", "s", "t", "x">>

Code(c) == CHOOSE i \in 1..Len(Alphabet) : Alphabet[i] = c

\* Byte-wise order of two strings, as Go's < on strings.
RECURSIVE StrLess(_, _)
StrLess(s, t) ==
    IF t = <<>> THEN FALSE
    ELSE IF s = <<>> THEN TRUE
    ELSE IF Head(s) = Head(t) THEN StrLess(Tail(s), Tail(t))
    ELSE Code(Head(s)) < Code(Head(t))

HasPrefix(s, p) == Len(s) >= Len(p) /\ SubSeq(s, 1, Len(p)) = p

\* Position of the last "/" of p, 0 when there is none.
LastSep(p) ==
    IF \E i \in 1..Len(p) : p[i] = "/"
    THEN CHOOSE i \in 1..Len(p) :
             p[i] = "/" /\ \A j \in (i + 1)..Len(p) : p[j] # "/"
    ELSE 0

Dot == <<".">>
Slash == <<"/">>

\* filepath.Join of two clean elements: empty elements are dropped.
Join(a, b) ==
    IF a = <<>> THEN b
    ELSE IF b = <<>> THEN a
    ELSE IF a = Slash THEN a \o b
    ELSE a \o Slash \o b

\* filepath.Dir of a clean path.
Dir(p) ==
    LET i == LastSep(p)
    IN  IF i = 0 THEN Dot
        ELSE IF i = 1 THEN Slash
        ELSE SubSeq(p, 1, i - 1)

\* filepath.Base of a clean path.
Base(p) == SubSeq(p, LastSep(p) + 1, Len(p))

IsAbs(p) == p # <<>> /\ p[1] = "/"

\* The path elements of a clean path.
RECURSIVE Elements(_)
Elements(p) ==
    IF p = <<>> \/ p = Slash THEN <<>>
    ELSE IF p[1] = "/" THEN Elements(Tail(p))
    ELSE IF \E i \in 1..Len(p) : p[i] = "/"
    THEN LET i == CHOOSE k \in 1..Len(p) :
                      p[k] = "/" /\ \A j \in 1..(k - 1) : p[j] # "/"
         IN  <<SubSeq(p, 1, i - 1)>> \o Elements(SubSeq(p, i + 1, Len(p)))
    ELSE <<p>>

RECURSIVE JoinAll(_)
JoinAll(es) == IF es = <<>> THEN <<>> ELSE Join(Head(es), JoinAll(Tail(es)))

\* filepath.Rel(base, targ) of two clean paths: the path and whether an error
\* is returned.  Rel fails when exactly one of the two is absolute.
Rel(base, targ) ==
    IF IsAbs(base) # IsAbs(targ) THEN [path |-> <<>>, err |-> TRUE]
    ELSE IF base = targ THEN [path |-> Dot, err |-> FALSE]
    ELSE
      LET b == IF base = Dot THEN <<>> ELSE Elements(base)
          t == IF targ = Dot THEN <<>> ELSE Elements(targ)
          n == IF Len(b) < Len(t) THEN Len(b) ELSE Len(t)
          k == CHOOSE c \in 0..n :
                   /\ \A j \in 1..c : b[j] = t[j]
                   /\ (c < n => b[c + 1] # t[c + 1])
          ups == [j \in 1..(Len(b) - k) |-> <<".", ".">>]
      IN  [path |-> JoinAll(ups \o SubSeq(t, k + 1, Len(t))), err |-> FALSE]

(* ------------------------------- names --------------------------------- *)
\* The bag of the model lives at filepath.Join(location, name) = "/b".
Location == Slash
BagName == <<"b">>

BagItTxt == <<"b", "a", "g", "i", "t", ".", "t", "x", "t">>
BagInfoTxt == <<"b", "a", "g", "-", "i", "n", "f", "o", ".", "t", "x", "t">>
NestedTxt == <<"m", "e", "t", "a", "/", "t", ".", "t", "x", "t">>
ReadmeTxt == <<"r", "e", "a", "d", "m", "e", ".", "t", "x", "t">>
DataName == <<"d", "a", "t", "a">>
ManifestPrefix == <<"m", "a", "n", "i", "f", "e", "s", "t", "-">>
TagManifestPrefix == <<"t", "a", "g", "m", "a", "n", "i", "f", "e", "s", "t", "-">>
TxtSuffix == <<".", "t", "x", "t">>
Md5 == <<"m", "d", "5">>
Sha1 == <<"s", "h", "a", "1">>

\* The manifest types that Manifest.Type() reports.
PayloadManifest == "PayloadManifest"
TagManifest == "TagManifest"

\* Names a caller registers with AddTagfile, besides bagit.txt.
TagNames == {BagInfoTxt, NestedTxt}
\* Names of files put into the bag directory behind the Bag's back.
StrayNames == {BagInfoTxt, ReadmeTxt}
\* hashNames arguments of NewBag.
HashNameChoices == {<<Md5>>, <<Md5, Sha1>>, << <<"M", "D", "5">>, Md5 >>}
\* The name of a manifest file, given to AddTagfile as a tag file name.
ManifestLikeNames == {TagManifestPrefix \o Md5 \o TxtSuffix}

\* Files outside the bag that AddFile and AddDir copy from.
SrcFile == "/src/hello.txt"
SrcMissing == "/src/missing.txt"
SrcFiles == {SrcFile, SrcMissing}
SrcExists(src) == src = SrcFile
SrcBytes(src) == "hello"
\* The directory AddDir copies: relative path, content, and whether the file
\* can be read.
SrcDir == "/src/dir"
SrcDirFiles == <<[rel |-> <<"a">>, bytes |-> "hello", readable |-> TRUE],
                 [rel |-> <<"f">>, bytes |-> "world", readable |-> TRUE],
                 [rel |-> <<"g">>, bytes |-> "", readable |-> FALSE]>>
DstNames == {<<"a">>}

(* ---------------------------- file system ------------------------------ *)
\* A disk is a function from the absolute paths that exist to their entries.
DirEntry == [dir |-> TRUE, bytes |-> <<>>]
FileEntry(b) == [dir |-> FALSE, bytes |-> b]

Exists(d, p) == p \in DOMAIN d
IsDir(d, p) == p \in DOMAIN d /\ d[p].dir
IsFile(d, p) == p \in DOMAIN d /\ ~d[p].dir

Put(d, p, e) == [q \in DOMAIN d \cup {p} |-> IF q = p THEN e ELSE d[q]]
Remove(d, p) == [q \in DOMAIN d \ {p} |-> d[q]]

\* p and every directory above it, the root excluded.
Ancestors(p) ==
    {SubSeq(p, 1, i - 1) : i \in {k \in 2..Len(p) : p[k] = "/"}} \cup {p}

\* os.Mkdir: fails when p exists or its parent is no directory.
Mkdir(d, p) ==
    IF Exists(d, p) \/ ~IsDir(d, Dir(p))
    THEN [disk |-> d, err |-> TRUE]
    ELSE [disk |-> Put(d, p, DirEntry), err |-> FALSE]

\* os.MkdirAll: creates p and the missing directories above it; fails when
\* one of them exists and is a file.
MkdirAll(d, p) ==
    IF \E a \in Ancestors(p) : IsFile(d, a)
    THEN [disk |-> d, err |-> TRUE]
    ELSE [disk |-> [q \in DOMAIN d \cup Ancestors(p) |->
                       IF q \in DOMAIN d THEN d[q] ELSE DirEntry],
          err |-> FALSE]

\* os.Create followed by a write of b: fails on an I/O fault, when the parent
\* is no directory, or when p is a directory.
WriteFile(d, p, b, fault) ==
    IF fault \/ ~IsDir(d, Dir(p)) \/ IsDir(d, p)
    THEN [disk |-> d, err |-> TRUE]
    ELSE [disk |-> Put(d, p, FileEntry(b)), err |-> FALSE]

\* The names of the entries of directory p, in the order filepath.Walk reads
\* them (sorted by name).
RECURSIVE SortNames(_)
SortNames(S) ==
    IF S = {} THEN <<>>
    ELSE LET m == CHOOSE x \in S : \A y \in S \ {x} : StrLess(x, y)
         IN  <<m>> \o SortNames(S \ {m})

Children(d, p) == {q \in DOMAIN d : q # p /\ Dir(q) = p}

\* filepath.Walk(root): root first, then each entry, directories followed
\* by their content, in name order.
RECURSIVE Walk(_, _)
RECURSIVE WalkAll(_, _)
Walk(d, p) ==
    IF IsDir(d, p) THEN <<p>> \o WalkAll(d, SortNames(Children(d, p)))
    ELSE <<p>>
WalkAll(d, ps) ==
    IF ps = <<>> THEN <<>> ELSE Walk(d, Head(ps)) \o WalkAll(d, Tail(ps))

(* ------------------------- checksums and tag files --------------------- *)
\* A digest is determined by the algorithm and the bytes hashed.
Checksum(algo, bytes) == <<algo, bytes>>

\* bagutil.FileChecksum: the digest of the file at path; fails when the file
\* cannot be opened or read.
FileChecksum(d, path, algo, fault) ==
    IF fault \/ ~IsFile(d, path)
    THEN [sum |-> <<>>, err |-> TRUE]
    ELSE [sum |-> Checksum(algo, d[path].bytes), err |-> FALSE]

\* The content of a payload source file with text t.
RawBytes(t) == << <<t>> >>

NewTagField(label, value) == [label |-> label, value |-> value]
NewTagFile(path) == [name |-> path, Data |-> <<>>]
AddField(tf, f) == [tf EXCEPT !.Data = Append(@, f)]

\* One "<field-name>: <value>" line per field.
TagFileBytes(tf) ==
    [i \in 1..Len(tf.Data) |-> <<tf.Data[i].label, ":", tf.Data[i].value>>]

\* TagFile.Create: (re)writes the tag file's current content at its name.
TagFileCreate(d, tf, fault) == WriteFile(d, tf.name, TagFileBytes(tf), fault)

(* ------------------------------ manifests ------------------------------ *)
EmptyData == [k \in {} |-> <<>>]
\* An entry that is added beside the one the key already has, not over it.
SetEntryBeside(Data, key, sum) ==
    LET k2 == IF key \in DOMAIN Data THEN key \o Dot ELSE key
    IN  [k \in DOMAIN Data \cup {k2} |-> IF k = k2 THEN sum ELSE Data[k]]
\* manifest.Data[key] = sum
SetEntry(Data, key, sum) ==
    [k \in DOMAIN Data \cup {key} |-> IF k = key THEN sum ELSE Data[k]]

Lower(c) ==
    CASE c = "M" -> "m" [] c = "D" -> "d" [] c = "S" -> "s"
      [] c = "H" -> "h" [] c = "A" -> "a" [] OTHER -> c
\* strings.ToLower
ToLower(s) == [i \in 1..Len(s) |-> Lower(s[i])]

\* NewManifest(pathToFile, hashName): a path that names a tagmanifest file is
\* kept, any other path is the directory that holds manifest-<algo>.txt.
NewManifest(path, hashName) ==
    IF HasPrefix(Base(path), TagManifestPrefix)
    THEN [name |-> path, kind |-> TagManifest, algo |-> hashName,
          Data |-> EmptyData]
    ELSE [name |-> Join(path, ManifestPrefix \o hashName \o TxtSuffix),
          kind |-> PayloadManifest, algo |-> hashName, Data |-> EmptyData]

\* One "<digest> <path>" line per entry, ordered by path.
ManifestBytes(m) ==
    LET keys == SortNames(DOMAIN m.Data)
    IN  [i \in 1..Len(keys) |-> <<m.Data[keys[i]], keys[i]>>]

\* Manifest.Create: writes the whole manifest file at its name.
ManifestCreate(d, m, fault) == WriteFile(d, m.name, ManifestBytes(m), fault)

(* -------------------------------- state -------------------------------- *)
VARIABLES
    pc,         \* "new": no bag yet; "idle": between calls; "failed": the
                \* constructor returned an error; "tags", "sums",
                \* "manifests": position inside Save
    caller,     \* who called the running Save: "NewBag" or "user"
    Manifests,  \* Bag.Manifests of bag.go: a sequence of manifests
    Manifest,   \* Bag.Manifest of the single-manifest Bag
    tagfiles,   \* Bag.tagfiles: relative name -> TagFile
    disk,       \* the file system
    ops,        \* calls made so far
    faults,     \* I/O faults injected so far
    ret,        \* the last call and what it returned
    todo,       \* Save: tag files the range loop has not visited yet
    cur,        \* Save: the tag file of the current iteration
    idx,        \* Save: index of the current manifest
    errs,       \* Save: the errs slice
    events,     \* what the running (or last) Save did, in order
    saved       \* the manifests and their files as they were when the
                \* running (or last) Save began, kept when the call before
                \* it was a Save without error

vars == <<pc, caller, Manifests, Manifest, tagfiles, disk, ops, faults, ret,
          todo, cur, idx, errs, events, saved>>

\* Bag.Path()
Path == Join(Location, BagName)
\* Payload.Name()
PayloadName == Join(Path, DataName)

\* The file system may fail the write or read of a step.
Inject(fault) ==
    /\ fault => faults < MaxFaults
    /\ faults' = IF fault THEN faults + 1 ELSE faults

Error(kind, path, algo) == [kind |-> kind, path |-> path, algo |-> algo]
Event(ev, tf, m, ok) == [ev |-> ev, tf |-> tf, m |-> m, ok |-> ok]
Return(op, es, val) == [op |-> op, errs |-> es, val |-> val]

\* No Save without error came right before.
NoSnapshot == [ok |-> FALSE, Manifests |-> <<>>, files |-> <<>>]
\* The content of the manifests' files.
ManifestFileBytes(ms, d) ==
    [n \in {ms[i].name : i \in DOMAIN ms} \cap DOMAIN d |-> d[n].bytes]

NoTagFiles == [n \in {} |-> NewTagFile(<<>>)]
SetTagFile(tfs, name, tf) ==
    [n \in DOMAIN tfs \cup {name} |-> IF n = name THEN tf ELSE tfs[n]]

\* Bag.GetManifests: the manifests of one type, as indices into Manifests.
RECURSIVE SelectIdx(_, _, _)
SelectIdx(ms, type, i) ==
    IF i > Len(ms) THEN <<>>
    ELSE IF ms[i].kind = type THEN <<i>> \o SelectIdx(ms, type, i + 1)
    ELSE SelectIdx(ms, type, i + 1)
GetManifests(type) == SelectIdx(Manifests, type, 1)

\* Bag.Manifest before NewBag has set it.
NilManifest ==
    [name |-> <<>>, kind |-> PayloadManifest, algo |-> <<>>, Data |-> EmptyData]

\* An empty file system, or one where the bag directory is already taken.
Init ==
    /\ pc = "new"
    /\ caller = ""
    /\ Manifests = <<>>
    /\ Manifest = NilManifest
    /\ tagfiles = NoTagFiles
    /\ disk \in {[q \in {Slash} |-> DirEntry], [q \in {Slash, Path} |-> DirEntry]}
    /\ ops = 0
    /\ faults = 0
    /\ ret = Return("", <<>>, <<>>)
    /\ todo = {}
    /\ cur = <<>>
    /\ idx = 0
    /\ errs = <<>>
    /\ events = <<>>
    /\ saved = NoSnapshot

(* ------------------------------- payload ------------------------------- *)
\* Payload.Add: copies src to <payload dir>/dst, creating the directories
\* above it, and returns one digest of the copied bytes per algorithm.
PayloadAdd(d, src, dst, algos, fault) ==
    IF ~SrcExists(src) THEN [disk |-> d, sums |-> <<>>, err |-> TRUE]
    ELSE
      LET dstPath == Join(PayloadName, dst)
          mk == MkdirAll(d, Dir(dstPath))
          wr == WriteFile(mk.disk, dstPath, RawBytes(SrcBytes(src)), fault)
      IN  IF mk.err \/ wr.err
          THEN [disk |-> wr.disk, sums |-> <<>>, err |-> TRUE]
          ELSE [disk |-> wr.disk,
                sums |-> [i \in DOMAIN algos |->
                             Checksum(algos[i], RawBytes(SrcBytes(src)))],
                err |-> FALSE]

\* Payload.AddAll: walks the source directory and adds every file under its
\* path relative to the directory; a file that cannot be added contributes an
\* error and the walk goes on.
RECURSIVE PayloadAddAll(_, _, _)
PayloadAddAll(d, files, algos) ==
    IF files = <<>> THEN [disk |-> d, data |-> <<>>, errs |-> <<>>]
    ELSE
      LET f == Head(files)
          dstPath == Join(PayloadName, f.rel)
          mk == MkdirAll(d, Dir(dstPath))
          wr == WriteFile(mk.disk, dstPath, RawBytes(f.bytes), ~f.readable)
          failed == mk.err \/ wr.err
          rest == PayloadAddAll(wr.disk, Tail(files), algos)
      IN  [disk |-> rest.disk,
           data |-> IF failed THEN rest.data
                    ELSE <<[rel |-> f.rel,
                            sums |-> [i \in DOMAIN algos |->
                                         Checksum(algos[i], RawBytes(f.bytes))]]>>
                         \o rest.data,
           errs |-> IF failed THEN <<Error("Add", f.rel, <<>>)>> \o rest.errs
                    ELSE rest.errs]

(* ---------------------------- bag.go: NewBag --------------------------- *)
\* Bag.AddTagfile on a tagfiles map and a disk: the directories above the
\* tag file are made, the TagFile is registered, then written.
AddTagfileOn(tfs, d, name, fault) ==
    LET tagFilePath == Join(Path, name)
        mk == MkdirAll(d, Dir(tagFilePath))
        tf == NewTagFile(tagFilePath)
        cr == TagFileCreate(mk.disk, tf, fault)
    IN  IF mk.err THEN [tagfiles |-> tfs, disk |-> d, err |-> TRUE]
        ELSE [tagfiles |-> SetTagFile(tfs, name, tf), disk |-> cr.disk,
              err |-> cr.err]

\* Bag.createBagItFile: registers bagit.txt and gives it its two fields.
createBagItFile(tfs, d, fault) ==
    LET r == AddTagfileOn(tfs, d, BagItTxt, fault)
    IN  IF r.err THEN r
        ELSE [r EXCEPT !.tagfiles[BagItTxt] =
                 AddField(AddField(@, NewTagField("BagIt-Version", "0.97")),
                          NewTagField("Tag-File-Character-Encoding", "UTF-8"))]

\* The manifests NewBag makes for hashNames: per name a payload manifest and,
\* when asked for, a tag manifest.
RECURSIVE InitManifests(_, _)
InitManifests(hashNames, createTagManifests) ==
    IF hashNames = <<>> THEN <<>>
    ELSE
      LET lcHashName == ToLower(Head(hashNames))
          manifest == NewManifest(Path, lcHashName)
          fullPath == Join(Path, TagManifestPrefix \o lcHashName \o TxtSuffix)
          tagmanifest == NewManifest(fullPath, lcHashName)
      IN  (IF createTagManifests THEN <<manifest, tagmanifest>>
           ELSE <<manifest>>)
          \o InitManifests(Tail(hashNames), createTagManifests)

\* Leaving the range loop after any tag file.
AfterTagFileBreaks(td) == "manifests"

\* Where Save goes once it is done with a tag file: to the next tag file, or
\* on to the manifests when the range loop is over.
AfterTagFile(td) == IF td = {} THEN "manifests" ELSE "tags"

\* Entry into Bag.Save for a bag with the given tag files.
EnterSave(who, tfs) ==
    /\ caller' = who
    /\ todo' = DOMAIN tfs
    /\ cur' = <<>>
    /\ idx' = 1
    /\ errs' = <<>>
    /\ events' = <<>>
    /\ saved' = IF who = "user" /\ ret.op \in {"Save", "NewBag"} /\ errs = <<>>
                THEN [ok |-> TRUE, Manifests |-> Manifests,
                      files |-> ManifestFileBytes(Manifests, disk)]
                ELSE NoSnapshot
    /\ pc' = AfterTagFile(DOMAIN tfs)

NewBagFails(d) ==
    /\ pc' = "failed"
    /\ disk' = d
    /\ ret' = Return("NewBag", <<Error("NewBag", Path, <<>>)>>, <<>>)
    /\ UNCHANGED <<caller, Manifests, Manifest, tagfiles, ops, todo, cur, idx,
                   errs, events, saved>>

NewBag(hashNames, createTagManifests, fault) ==
    /\ pc = "new"
    /\ Inject(fault)
    /\ LET mk == Mkdir(disk, Path)
           pl == Mkdir(mk.disk, PayloadName)
           bagit == createBagItFile(NoTagFiles, pl.disk, fault)
       IN  IF mk.err THEN NewBagFails(disk)
           ELSE IF pl.err THEN NewBagFails(mk.disk)
           ELSE IF bagit.err THEN NewBagFails(bagit.disk)
           ELSE /\ Manifests' = InitManifests(hashNames, createTagManifests)
                /\ tagfiles' = bagit.tagfiles
                /\ disk' = bagit.disk
                /\ EnterSave("NewBag", bagit.tagfiles)
                /\ UNCHANGED <<Manifest, ops, ret>>

(* ----------------------------- bag.go: Save ---------------------------- *)
\* Save is called on a bag between two calls.
SaveBegin ==
    /\ pc = "idle"
    /\ ops < MaxOps
    /\ ops' = ops + 1
    /\ EnterSave("user", tagfiles)
    /\ UNCHANGED <<Manifests, Manifest, tagfiles, disk, faults, ret>>

\* What Save returns, to the user or into NewBag; NewBag's own err is nil
\* after createBagItFile, so it returns the bag whatever Save reports.
SaveReturns(es) ==
    /\ pc' = "idle"
    /\ errs' = es
    /\ ret' = IF caller = "NewBag" THEN Return("NewBag", <<>>, <<>>)
              ELSE Return("Save", es, <<>>)

\* Without the write: what Save would do if it only made the directory.
WriteTagFileNoCreate(d, es, name, fault) ==
    LET tf == tagfiles[name]
        mk == MkdirAll(d, Dir(tf.name))
    IN  [disk |-> mk.disk,
         errs |-> IF mk.err
                  THEN Append(es, Error("MkdirAll", Dir(tf.name), <<>>))
                  ELSE es,
         events |-> <<Event("mkdir", name, 0, ~mk.err)>>]

\* The first half of an iteration of the range over b.tagfiles: the
\* directory of the tag file is made and the tag file is written; both
\* errors are collected in errs.
WriteTagFile(d, es, name, fault) ==
    LET tf == tagfiles[name]
        mk == MkdirAll(d, Dir(tf.name))
        e1 == IF mk.err THEN Append(es, Error("MkdirAll", Dir(tf.name), <<>>))
              ELSE es
        cr == TagFileCreate(mk.disk, tf, fault)
        e2 == IF cr.err THEN Append(e1, Error("Create", tf.name, <<>>)) ELSE e1
    IN  [disk |-> cr.disk,
         errs |-> e2,
         events |-> <<Event("mkdir", name, 0, ~mk.err),
                      Event("write", name, 0, ~cr.err)>>]

\* One iteration of the range over b.tagfiles, up to the inner loop.  Go
\* ranges over a map in no fixed order.
SaveTagFile ==
    /\ pc = "tags"
    /\ \E name \in todo, fault \in BOOLEAN :
         LET w == WriteTagFile(disk, errs, name, fault)
         IN  /\ Inject(fault)
             /\ disk' = w.disk
             /\ errs' = w.errs
             /\ events' = events \o w.events
             /\ todo' = todo \ {name}
             /\ cur' = name
             /\ idx' = 1
             /\ pc' = IF GetManifests(TagManifest) # <<>> THEN "sums"
                      ELSE AfterTagFile(todo \ {name})
    /\ UNCHANGED <<caller, Manifests, Manifest, tagfiles, ops, ret, saved>>

\* The checksum with the first algorithm's hash whatever the manifest.
TagFileChecksumMd5(tf, manifest, fault) ==
    FileChecksum(disk, tf.name, Md5, fault)

\* The checksum of a tag file as it is on disk, with the manifest's hash.
TagFileChecksum(tf, manifest, fault) ==
    FileChecksum(disk, tf.name, manifest.algo, fault)

\* The key under which Save files a tag file's checksum.
TagEntryKey(tf) == tf.name

\* One iteration of the inner loop: the checksum of the current tag file
\* under the algorithm of the idx-th tag manifest is computed and entered;
\* when it cannot be computed Save returns that one error at once.
SaveChecksum ==
    /\ pc = "sums"
    /\ \E fault \in BOOLEAN :
         LET tagManifests == GetManifests(TagManifest)
             i == tagManifests[idx]
             manifest == Manifests[i]
             tf == tagfiles[cur]
             cs == TagFileChecksum(tf, manifest, fault)
         IN  /\ Inject(fault)
             /\ IF cs.err
                THEN /\ SaveReturns(<<Error("FileChecksum", tf.name,
                                             manifest.algo)>>)
                     /\ events' = Append(events, Event("sum", cur, i, FALSE))
                     /\ UNCHANGED <<Manifests, idx>>
                ELSE /\ Manifests' = [Manifests EXCEPT ![i].Data =
                                         SetEntry(@, TagEntryKey(tf), cs.sum)]
                     /\ events' = Append(events, Event("sum", cur, i, TRUE))
                     /\ IF idx < Len(tagManifests)
                        THEN /\ idx' = idx + 1
                             /\ UNCHANGED pc
                        ELSE /\ idx' = 1
                             /\ pc' = AfterTagFile(todo)
                     /\ UNCHANGED <<errs, ret>>
    /\ UNCHANGED <<caller, Manifest, tagfiles, disk, ops, todo, cur, saved>>

\* One iteration of the loop over b.Manifests: the manifest is written.
SaveManifest ==
    /\ pc = "manifests"
    /\ idx <= Len(Manifests)
    /\ \E fault \in BOOLEAN :
         LET manifest == Manifests[idx]
             cr == ManifestCreate(disk, manifest, fault)
         IN  /\ Inject(fault)
             /\ disk' = cr.disk
             /\ errs' = IF cr.err
                        THEN Append(errs, Error("Create", manifest.name, <<>>))
                        ELSE errs
             /\ events' = Append(events, Event("manifest", <<>>, idx, ~cr.err))
    /\ idx' = idx + 1
    /\ UNCHANGED <<pc, caller, Manifests, Manifest, tagfiles, ops, ret, todo,
                   cur, saved>>

\* Save returning once the first manifest is written.
SaveEndsEarly ==
    /\ pc = "manifests"
    /\ idx > 1
    /\ SaveReturns(errs)
    /\ UNCHANGED <<caller, Manifests, Manifest, tagfiles, disk, ops, faults,
                   todo, cur, idx, events, saved>>

\* The loops are over: Save returns errs.
SaveEnd ==
    /\ pc = "manifests"
    /\ idx > Len(Manifests)
    /\ SaveReturns(errs)
    /\ UNCHANGED <<caller, Manifests, Manifest, tagfiles, disk, ops, faults,
                   todo, cur, idx, events, saved>>

(* ------------------------- bag.go: the other calls --------------------- *)
\* A call is made on a bag between two calls; it ends the record of the
\* last Save.
Call ==
    /\ pc = "idle"
    /\ ops < MaxOps
    /\ ops' = ops + 1
    /\ events' = <<>>
    /\ saved' = NoSnapshot
    /\ UNCHANGED <<pc, caller, todo, cur, idx, errs>>

Algorithms(ms) == [i \in DOMAIN ms |-> Manifests[ms[i]].algo]

\* Bag.AddFile: the payload manifests go to Payload.Add; what Add returns
\* besides the error is dropped.
AddFile(src, dst, fault) ==
    /\ Call
    /\ LET payloadManifests == GetManifests(PayloadManifest)
           r == PayloadAdd(disk, src, dst, Algorithms(payloadManifests), fault)
       IN  /\ Inject(fault)
           /\ disk' = r.disk
           /\ ret' = Return("AddFile",
                            IF r.err THEN <<Error("Add", dst, <<>>)>> ELSE <<>>,
                            <<dst>>)
    /\ UNCHANGED <<Manifests, Manifest, tagfiles>>

\* Bag.AddDir: as AddFile, for every file under src.
AddDir ==
    /\ Call
    /\ LET payloadManifests == GetManifests(PayloadManifest)
           r == PayloadAddAll(disk, SrcDirFiles, Algorithms(payloadManifests))
       IN  /\ disk' = r.disk
           /\ ret' = Return("AddDir", r.errs, <<>>)
    /\ UNCHANGED <<Manifests, Manifest, tagfiles, faults>>

\* Bag.AddTagfile
AddTagfile(name, fault) ==
    /\ Call
    /\ LET r == AddTagfileOn(tagfiles, disk, name, fault)
       IN  /\ Inject(fault)
           /\ tagfiles' = r.tagfiles
           /\ disk' = r.disk
           /\ ret' = Return("AddTagfile",
                            IF r.err THEN <<Error("AddTagfile", name, <<>>)>>
                            ELSE <<>>,
                            <<>>)
    /\ UNCHANGED <<Manifests, Manifest>>

\* Bag.TagFile(name) hands out the registered TagFile, to which the caller
\* adds a field (as createBagItFile does).
TagFileAddField(name) ==
    /\ Call
    /\ name \in DOMAIN tagfiles
    /\ Len(tagfiles[name].Data) < MaxFields
    /\ tagfiles' = [tagfiles EXCEPT ![name] =
                       AddField(@, NewTagField("Note", "edited"))]
    /\ ret' = Return("TagFile", <<>>, <<>>)
    /\ UNCHANGED <<Manifests, Manifest, disk, faults>>

(* ----------------------------- environment ----------------------------- *)
\* Something is done to the bag directory by hand, between two calls; the
\* record of the last Save stays.
ByHand ==
    /\ pc = "idle"
    /\ ops < MaxOps
    /\ ops' = ops + 1
    /\ saved' = NoSnapshot
    /\ UNCHANGED <<pc, caller, todo, cur, idx, errs, events>>

\* A file is put into the bag directory by hand.
PlaceFile(name) ==
    /\ ByHand
    /\ ~Exists(disk, Join(Path, name))
    /\ disk' = Put(disk, Join(Path, name), FileEntry(RawBytes("stray")))
    /\ ret' = Return("PlaceFile", <<>>, <<>>)
    /\ UNCHANGED <<Manifests, Manifest, tagfiles, faults>>

\* A file of the bag directory is deleted by hand.
DeleteFile(p) ==
    /\ ByHand
    /\ IsFile(disk, p)
    /\ HasPrefix(p, Path \o Slash)
    /\ disk' = Remove(disk, p)
    /\ ret' = Return("DeleteFile", <<>>, <<p>>)
    /\ UNCHANGED <<Manifests, Manifest, tagfiles, faults>>

Next ==
    \/ \E hashNames \in HashNameChoices, createTagManifests \in BOOLEAN,
          fault \in BOOLEAN :
          NewBag(hashNames, createTagManifests, fault)
    \/ SaveBegin
    \/ SaveTagFile
    \/ SaveChecksum
    \/ SaveManifest
    \/ SaveEnd
    \/ \E src \in SrcFiles, dst \in DstNames, fault \in BOOLEAN :
          AddFile(src, dst, fault)
    \/ AddDir
    \/ \E name \in TagNames \cup ManifestLikeNames, fault \in BOOLEAN :
          AddTagfile(name, fault)
    \/ \E name \in DOMAIN tagfiles : TagFileAddField(name)
    \/ \E name \in StrayNames : PlaceFile(name)
    \/ \E p \in DOMAIN disk : DeleteFile(p)

Spec == Init /\ [][Next]_vars

(* --------------- the single-manifest Bag (unnamed/part_000) ------------ *)
\* The orders in which a range over a map with key set S may visit the keys.
Orders(S) ==
    {o \in [1..Cardinality(S) -> S] : \A i, j \in DOMAIN o : o[i] = o[j] => i = j}

\* ListFiles: walks the bag directory; an entry is listed unless it is a
\* directory whose path starts with the payload directory's.
RECURSIVE Visit(_, _)
Visit(d, walk) ==
    IF walk = <<>> THEN [files |-> <<>>, err |-> FALSE]
    ELSE
      LET pathToFile == Head(walk)
          isPayload == HasPrefix(pathToFile, PayloadName)
          fp == Rel(Path, pathToFile)
          rest == Visit(d, Tail(walk))
      IN  IF ~IsDir(d, pathToFile) \/ ~isPayload
          THEN IF fp.err \/ rest.err THEN [files |-> <<>>, err |-> TRUE]
               ELSE IF fp.path # Dot
               THEN [files |-> <<fp.path>> \o rest.files, err |-> FALSE]
               ELSE rest
          ELSE rest
ListFiles == Visit(disk, Walk(disk, Path))

\* TrackedFiles: the tag file names, in the order the range visits them, and
\* the manifest's path relative to the bag when filepath.Rel reports an error.
TrackedFiles(order) ==
    LET mPath == Rel(Path, Manifest.name)
    IN  IF mPath.err THEN Append(order, mPath.path) ELSE order

\* The stat of the tracked name itself, not of the file in the bag.
RECURSIVE ConfirmFilesNoJoin(_)
ConfirmFilesNoJoin(files) ==
    IF files = <<>> THEN <<>>
    ELSE (IF ~Exists(disk, Head(files))
          THEN <<Error("Unable to find", Head(files), <<>>)>> ELSE <<>>)
         \o ConfirmFilesNoJoin(Tail(files))

\* ConfirmFiles: one error per tracked file that os.Stat does not find.
RECURSIVE ConfirmFiles(_)
ConfirmFiles(files) ==
    IF files = <<>> THEN <<>>
    ELSE (IF ~Exists(disk, Join(Path, Head(files)))
          THEN <<Error("Unable to find", Head(files), <<>>)>> ELSE <<>>)
         \o ConfirmFiles(Tail(files))

\* Orphans: the listed files that are no key of the map made of the tracked
\* files.
RECURSIVE NotIn(_, _)
NotIn(files, fMap) ==
    IF files = <<>> THEN <<>>
    ELSE (IF Head(files) \notin fMap THEN <<Head(files)>> ELSE <<>>)
         \o NotIn(Tail(files), fMap)
Orphans(tracked) ==
    LET fMap == {tracked[i] : i \in DOMAIN tracked}
    IN  NotIn(ListFiles.files, fMap)

\* Close: the manifest is written first, then every tag file; the paths in
\* failing are those whose write fails.
RECURSIVE CloseTagFiles(_, _, _, _)
CloseTagFiles(tfs, d, order, failing) ==
    IF order = <<>> THEN [disk |-> d, errs |-> <<>>, events |-> <<>>]
    ELSE
      LET tf == tfs[Head(order)]
          mk == MkdirAll(d, Dir(tf.name))
          cr == TagFileCreate(mk.disk, tf, tf.name \in failing)
          rest == CloseTagFiles(tfs, cr.disk, Tail(order), failing)
      IN  [disk |-> rest.disk,
           errs |-> (IF mk.err THEN <<Error("MkdirAll", Dir(tf.name), <<>>)>>
                     ELSE <<>>)
                    \o (IF cr.err THEN <<Error("Create", tf.name, <<>>)>>
                        ELSE <<>>)
                    \o rest.errs,
           events |-> <<Event("mkdir", Head(order), 0, ~mk.err),
                        Event("write", Head(order), 0, ~cr.err)>>
                      \o rest.events]

CloseOn(m, tfs, d, order, failing) ==
    LET cr == ManifestCreate(d, m, m.name \in failing)
        tags == CloseTagFiles(tfs, cr.disk, order, failing)
    IN  [disk |-> tags.disk,
         errs |-> (IF cr.err THEN <<Error("Create", m.name, <<>>)>> ELSE <<>>)
                  \o tags.errs,
         events |-> <<Event("manifest", <<>>, 1, ~cr.err)>> \o tags.events]

\* The writes of one Close that the file system may fail.
Failing(m, tfs) ==
    {F \in SUBSET ({m.name} \cup {tfs[n].name : n \in DOMAIN tfs}) :
        faults + Cardinality(F) <= MaxFaults}

\* NewBag of the single-manifest Bag; the deferred Close runs when NewBag
\* returns, also with an error, and what Close returns is dropped.
NewBag0(cs, fault) ==
    /\ pc = "new"
    /\ LET mk == Mkdir(disk, Path)
           m == NewManifest(Path, cs)
           pl == Mkdir(mk.disk, PayloadName)
           bagit == createBagItFile(NoTagFiles, pl.disk, fault)
       IN  IF mk.err THEN Inject(fault) /\ NewBagFails(disk)
           ELSE \E F \in Failing(m, bagit.tagfiles) :
                  LET cl == CloseOn(m, bagit.tagfiles, bagit.disk,
                                    <<BagItTxt>>, F)
                  IN  /\ fault => faults + Cardinality(F) < MaxFaults
                      /\ faults' = faults + Cardinality(F)
                                   + (IF fault THEN 1 ELSE 0)
                      /\ IF bagit.err
                         THEN /\ pc' = "failed"
                              /\ disk' = cl.disk
                              /\ ret' = Return("NewBag",
                                          <<Error("NewBag", Path, <<>>)>>, <<>>)
                              /\ UNCHANGED <<Manifest, tagfiles>>
                         ELSE /\ pc' = "idle"
                              /\ Manifest' = m
                              /\ tagfiles' = bagit.tagfiles
                              /\ disk' = cl.disk
                              /\ ret' = Return("NewBag", <<>>, <<>>)
    /\ UNCHANGED <<caller, Manifests, ops, todo, cur, idx, errs, events,
                   saved>>

\* AddFile of the single-manifest Bag: the checksum Payload.Add returns is
\* entered in the manifest under data/<dst>.
AddFile0(src, dst, fault) ==
    /\ Call
    /\ Inject(fault)
    /\ LET r == PayloadAdd(disk, src, dst, <<Manifest.algo>>, fault)
       IN  /\ disk' = r.disk
           /\ IF r.err
              THEN /\ ret' = Return("AddFile", <<Error("Add", dst, <<>>)>>,
                                   <<dst>>)
                   /\ UNCHANGED Manifest
              ELSE /\ ret' = Return("AddFile", <<>>, <<dst>>)
                   /\ Manifest' = [Manifest EXCEPT !.Data =
                                      SetEntry(@, Join(DataName, dst), r.sums[1])]
    /\ UNCHANGED <<Manifests, tagfiles>>

RECURSIVE SetEntries(_, _)
SetEntries(Data, data) ==
    IF data = <<>> THEN Data
    ELSE SetEntries(SetEntry(Data, Join(DataName, Head(data).rel),
                             Head(data).sums[1]),
                    Tail(data))

\* AddDir of the single-manifest Bag.
AddDir0 ==
    /\ Call
    /\ LET r == PayloadAddAll(disk, SrcDirFiles, <<Manifest.algo>>)
       IN  /\ disk' = r.disk
           /\ ret' = Return("AddDir", r.errs, <<>>)
           /\ Manifest' = [Manifest EXCEPT !.Data = SetEntries(@, r.data)]
    /\ UNCHANGED <<Manifests, tagfiles, faults>>

Close ==
    /\ pc = "idle"
    /\ ops < MaxOps
    /\ ops' = ops + 1
    /\ \E order \in Orders(DOMAIN tagfiles), F \in Failing(Manifest, tagfiles) :
         LET cl == CloseOn(Manifest, tagfiles, disk, order, F)
         IN  /\ faults' = faults + Cardinality(F)
             /\ disk' = cl.disk
             /\ errs' = cl.errs
             /\ events' = cl.events
             /\ ret' = Return("Close", cl.errs, <<>>)
    /\ UNCHANGED <<pc, caller, Manifests, Manifest, tagfiles, todo, cur, idx,
                   saved>>

\* A query is made on a bag between two calls and changes nothing.
Query ==
    /\ pc = "idle"
    /\ UNCHANGED <<pc, caller, Manifests, Manifest, tagfiles, disk, ops, faults,
                   todo, cur, idx, errs, events, saved>>

ListFilesCall ==
    /\ Query
    /\ ret' = Return("ListFiles",
                     IF ListFiles.err THEN <<Error("Walk", Path, <<>>)>>
                     ELSE <<>>,
                     ListFiles.files)

TrackedFilesCall ==
    /\ Query
    /\ \E order \in Orders(DOMAIN tagfiles) :
         ret' = Return("TrackedFiles", <<>>, TrackedFiles(order))

ConfirmFilesCall ==
    /\ Query
    /\ \E order \in Orders(DOMAIN tagfiles) :
         ret' = Return("ConfirmFiles", ConfirmFiles(TrackedFiles(order)), <<>>)

OrphansCall ==
    /\ Query
    /\ \E order \in Orders(DOMAIN tagfiles) :
         ret' = Return("Orphans", <<>>, Orphans(TrackedFiles(order)))

Next0 ==
    \/ \E cs \in {Md5, Sha1}, fault \in BOOLEAN : NewBag0(cs, fault)
    \/ \E src \in SrcFiles, dst \in DstNames, fault \in BOOLEAN :
          AddFile0(src, dst, fault)
    \/ AddDir0
    \/ \E name \in TagNames, fault \in BOOLEAN : AddTagfile(name, fault)
    \/ \E name \in DOMAIN tagfiles : TagFileAddField(name)
    \/ Close
    \/ ListFilesCall
    \/ TrackedFilesCall
    \/ ConfirmFilesCall
    \/ OrphansCall
    \/ \E name \in StrayNames : PlaceFile(name)
    \/ \E p \in DOMAIN disk : DeleteFile(p)

Spec0 == Init /\ [][Next0]_vars

(* ---------------------------- bag.go: ReadBag -------------------------- *)
\* The manifest files a bag directory may hold when it is opened.
ManifestMd5 == Join(Path, ManifestPrefix \o Md5 \o TxtSuffix)
ManifestSha1 == Join(Path, ManifestPrefix \o Sha1 \o TxtSuffix)
TagManifestSha1 == Join(Path, TagManifestPrefix \o Sha1 \o TxtSuffix)
ManifestFiles == {ManifestMd5, ManifestSha1, TagManifestSha1}
\* A digest that is no hexadecimal string of any algorithm's length.
BadDigest == << <<"z", "z">>, "invalidhex" >>
PayloadEntry == DataName \o Slash \o <<"a">>
\* The algorithm a manifest file is named after.
AlgoOf(name) ==
    LET base == Base(name)
        from == IF HasPrefix(base, TagManifestPrefix)
                THEN Len(TagManifestPrefix) + 1 ELSE Len(ManifestPrefix) + 1
    IN  SubSeq(base, from, Len(base) - Len(TxtSuffix))
\* A manifest file with one well-formed line, and one with a malformed line
\* before the well-formed one.
GoodManifest(name) ==
    << <<Checksum(AlgoOf(name), "hello"), PayloadEntry>> >>
MalformedManifest(name) ==
    << <<BadDigest, DataName \o Slash \o <<"x">> >> >> \o GoodManifest(name)
\* The tag files of the directory: well-formed, or with a line that is no
\* "<label>: <value>" line.
GoodTagFile == << <<"BagIt-Version", ":", "0.97">> >>
MalformedTagFile == RawBytes("no colon") \o GoodTagFile
\* The tagfiles arguments of ReadBag.
KnownTagFiles == {<<>>, <<BagItTxt>>, <<BagItTxt, BagInfoTxt>>}

\* The directories ReadBag is called on: with or without the payload
\* directory, each manifest file absent, well-formed or malformed, bagit.txt
\* absent, well-formed or malformed, and readme.txt present or not.
BagDirs ==
    {[q \in {Slash, Path}
           \cup (IF data THEN {PayloadName, Join(PayloadName, <<"a">>)} ELSE {})
           \cup DOMAIN ms
           \cup (IF bagit = "absent" THEN {} ELSE {Join(Path, BagItTxt)})
           \cup (IF readme THEN {Join(Path, ReadmeTxt)} ELSE {}) |->
        IF q \in {Slash, Path, PayloadName} THEN DirEntry
        ELSE IF q \in DOMAIN ms
        THEN FileEntry(IF ms[q] THEN GoodManifest(q) ELSE MalformedManifest(q))
        ELSE IF q = Join(Path, BagItTxt)
        THEN FileEntry(IF bagit = "good" THEN GoodTagFile ELSE MalformedTagFile)
        ELSE FileEntry(RawBytes("hello"))] :
     data \in BOOLEAN, readme \in BOOLEAN,
     bagit \in {"absent", "good", "malformed"},
     ms \in UNION {[S -> BOOLEAN] : S \in SUBSET ManifestFiles}}
\* The places ReadBag is called on that are no bag directory: nothing there,
\* or a file.
NoBagDirs ==
    {[q \in {Slash} |-> DirEntry],
     [q \in {Slash, Path} |->
        IF q = Slash THEN DirEntry ELSE FileEntry(RawBytes("hello"))]}

\* NewPayload(location): fails when location is no directory.
NewPayload(d, location) ==
    [name |-> location, err |-> ~IsDir(d, location)]

\* The parse of a manifest line: "<digest> <path>" with a digest of the
\* manifest's algorithm.
WellFormedLine(line, algo) == Len(line) = 2 /\ line[1][1] = algo
\* ReadManifest(name): the manifest named after the file, with the entries
\* of its well-formed lines, and one error for each other line and for each
\* line whose path an earlier line has.
RECURSIVE ParseManifestData(_, _, _, _)
ParseManifestData(lines, algo, name, acc) ==
    IF lines = <<>> THEN acc
    ELSE LET line == Head(lines)
         IN  IF ~WellFormedLine(line, algo)
             THEN ParseManifestData(Tail(lines), algo, name,
                    [acc EXCEPT !.errs =
                       Append(@, Error("MalformedManifest", name, algo))])
             ELSE IF line[2] \in DOMAIN acc.Data
             THEN ParseManifestData(Tail(lines), algo, name,
                    [acc EXCEPT !.errs =
                       Append(@, Error("DuplicateEntry", name, algo))])
             ELSE ParseManifestData(Tail(lines), algo, name,
                    [acc EXCEPT !.Data = SetEntry(@, line[2], line[1])])
ReadManifest(d, name) ==
    LET algo == AlgoOf(name)
        kind == IF HasPrefix(Base(name), TagManifestPrefix)
                THEN TagManifest ELSE PayloadManifest
    IN  IF ~IsFile(d, name)
        THEN [m |-> NilManifest, errs |-> <<Error("Open", name, algo)>>]
        ELSE LET parsed == ParseManifestData(d[name].bytes, algo, name,
                             [Data |-> EmptyData, errs |-> <<>>])
             IN  [m |-> [name |-> name, kind |-> kind, algo |-> algo,
                         Data |-> parsed.Data],
                  errs |-> parsed.errs]

\* ReadTagFile(name): nothing and an error when the file cannot be opened;
\* on a file with a line that does not parse, an error and, as parsed says,
\* the tag file with the fields of the other lines or nothing.
ParseTagFields(lines) ==
    LET good == SelectSeq(lines, LAMBDA line : Len(line) = 3)
    IN  [i \in 1..Len(good) |-> NewTagField(good[i][1], good[i][3])]
ReadTagFile(d, name, parsed) ==
    IF ~IsFile(d, name)
    THEN [nil |-> TRUE, tf |-> NewTagFile(name),
          errs |-> <<Error("Open", name, <<>>)>>]
    ELSE LET bad == \E i \in DOMAIN d[name].bytes : Len(d[name].bytes[i]) # 3
         IN  [nil |-> bad /\ ~parsed,
              tf |-> [name |-> name, Data |-> ParseTagFields(d[name].bytes)],
              errs |-> IF bad THEN <<Error("ReadTagFile", name, <<>>)>>
                       ELSE <<>>]

\* Bag.ListFiles of the bag being opened.
ListFilesOf(d) == Visit(d, Walk(d, Path))

\* Bag.findManifests: every listed file whose path starts with
\* <bag>/manifest- or <bag>/tagmanifest- is read as a manifest; the errors of
\* the first one that does not parse are returned at once.
RECURSIVE findManifests(_, _, _)
findManifests(d, bagFiles, ms) ==
    IF bagFiles = <<>> THEN [Manifests |-> ms, errs |-> <<>>]
    ELSE
      LET filePath == Join(Path, Head(bagFiles))
          payloadManifestPrefix == Join(Path, ManifestPrefix)
          tagManifestPrefix == Join(Path, TagManifestPrefix)
      IN  IF HasPrefix(filePath, payloadManifestPrefix)
             \/ HasPrefix(filePath, tagManifestPrefix)
          THEN LET rm == ReadManifest(d, filePath)
               IN  IF rm.errs # <<>>
                   THEN [Manifests |-> ms, errs |-> rm.errs]
                   ELSE findManifests(d, Tail(bagFiles), Append(ms, rm.m))
          ELSE findManifests(d, Tail(bagFiles), ms)

\* The loop of ReadBag over bag.Manifests: each manifest is read again from
\* its file in the bag directory; the first that is not found or does not
\* parse ends ReadBag.
RECURSIVE ParseManifests(_, _, _)
ParseManifests(d, ms, i) ==
    IF i > Len(ms) THEN [Manifests |-> ms, errs |-> <<>>]
    ELSE
      LET manifestPath == IF Dir(ms[i].name) # Path
                          THEN Join(Path, ms[i].name) ELSE ms[i].name
          rm == ReadManifest(d, manifestPath)
      IN  IF ~Exists(d, manifestPath)
          THEN [Manifests |-> ms,
                errs |-> <<Error("Can't find manifest", manifestPath, <<>>)>>]
          ELSE IF rm.errs # <<>>
          THEN [Manifests |-> ms,
                errs |-> <<Error("Unable to parse manifest", manifestPath,
                                 <<>>)>>]
          ELSE ParseManifests(d, [ms EXCEPT ![i] = rm.m], i + 1)

\* Every tag file found in the bag directory is read, named or not.
ReadTagFilesFound(d, names, tfs, parsed) ==
    LET found == {n \in {BagItTxt, BagInfoTxt, ReadmeTxt} :
                    IsFile(d, Join(Path, n))}
    IN  [n \in found |-> ReadTagFile(d, Join(Path, n), TRUE).tf]

\* The loop of ReadBag over its tagfiles argument: a name is tracked when
\* ReadTagFile returns a tag file for it, whatever errors come with it.
RECURSIVE ReadTagFiles(_, _, _, _)
ReadTagFiles(d, names, tfs, parsed) ==
    IF names = <<>> THEN tfs
    ELSE LET tName == Head(names)
             rt == ReadTagFile(d, Join(Path, tName), parsed)
         IN  ReadTagFiles(d, Tail(names),
                          IF ~rt.nil THEN SetTagFile(tfs, tName, rt.tf) ELSE tfs,
                          parsed)

\* ReadBag returns an error and no bag.
ReadBagFails(es) ==
    /\ pc' = "failed"
    /\ ret' = Return("ReadBag", es, <<>>)
    /\ UNCHANGED <<Manifests, tagfiles>>

\* ReadBag with the manifests found before the payload directory is looked
\* at.
ReadBagManifestsFirst(found, payload) ==
    IF found.errs # <<>> THEN found.errs
    ELSE IF payload.err THEN <<Error("NewPayload", payload.name, <<>>)>>
    ELSE <<>>

\* The errors of ReadBag up to the discovery of the manifests: the payload
\* comes first, findManifests is not reached without it.
ReadBagFinds(found, payload) ==
    IF payload.err THEN <<Error("NewPayload", payload.name, <<>>)>>
    ELSE found.errs

\* ReadBag(pathToFile, tagfiles) on the bag directory.
ReadBag(known, parsed) ==
    /\ pc = "new"
    /\ LET payload == NewPayload(disk, PayloadName)
           found == findManifests(disk, ListFilesOf(disk).files, <<>>)
           early == ReadBagFinds(found, payload)
           read == ParseManifests(disk, found.Manifests, 1)
       IN  IF ~Exists(disk, Path)
           THEN ReadBagFails(<<Error("Stat", Path, <<>>)>>)
           ELSE IF ~IsDir(disk, Path)
           THEN ReadBagFails(<<Error("is not a directory", Path, <<>>)>>)
           ELSE IF early # <<>> THEN ReadBagFails(early)
           ELSE IF Len(found.Manifests) = 0
           THEN ReadBagFails(<<Error("Unable to parse a manifest", Path, <<>>)>>)
           ELSE IF read.errs # <<>> THEN ReadBagFails(read.errs)
           ELSE /\ Manifests' = read.Manifests
                /\ tagfiles' = ReadTagFiles(disk, known, NoTagFiles, parsed)
                /\ pc' = "idle"
                /\ ret' = Return("ReadBag", <<>>, known)
    /\ UNCHANGED <<caller, Manifest, disk, ops, faults, todo, cur, idx, errs,
                   events, saved>>

InitRead ==
    /\ pc = "new"
    /\ caller = ""
    /\ Manifests = <<>>
    /\ Manifest = NilManifest
    /\ tagfiles = NoTagFiles
    /\ disk \in BagDirs \cup NoBagDirs
    /\ ops = 0
    /\ faults = 0
    /\ ret = Return("", <<>>, <<>>)
    /\ todo = {}
    /\ cur = <<>>
    /\ idx = 0
    /\ errs = <<>>
    /\ events = <<>>
    /\ saved = NoSnapshot

NextRead ==
    \E known \in KnownTagFiles, parsed \in BOOLEAN : ReadBag(known, parsed)

SpecRead == InitRead /\ [][NextRead]_vars

(* ------------------------------- claims -------------------------------- *)
\* The positions of the record of a Save at which something of a kind
\* happened.
At(ev) == {i \in DOMAIN events : events[i].ev = ev}
WrittenBefore(t, i) ==
    \E j \in 1..(i - 1) : events[j].ev = "write" /\ events[j].tf = t
EnteredBefore(t, m, i) ==
    \E j \in 1..(i - 1) : events[j] = Event("sum", t, m, TRUE)
TagManifestIdx == {i \in DOMAIN Manifests : Manifests[i].kind = TagManifest}
PayloadManifestIdx == {i \in DOMAIN Manifests : Manifests[i].kind = PayloadManifest}

\* Save has returned, to the user or into NewBag, and nothing was called since.
SaveReturned == pc = "idle" /\ ret.op \in {"Save", "NewBag"}

C3_TagEntriesMatchWrittenBytes ==
    (SaveReturned /\ errs = <<>>) =>
        \A t \in DOMAIN tagfiles : \A i \in TagManifestIdx :
            LET tf == tagfiles[t]
                m == Manifests[i]
            IN  /\ IsFile(disk, tf.name)
                /\ tf.name \notin {Manifests[j].name : j \in DOMAIN Manifests}
                     => disk[tf.name].bytes = TagFileBytes(tf)
                /\ \E k \in DOMAIN m.Data \cap {t, tf.name} :
                       m.Data[k] = Checksum(m.algo, TagFileBytes(tf))

\* A Save without error of a bag with two tag manifests and a tag file that
\* was edited since it was last written.
C3_Witness ==
    /\ SaveReturned /\ ret.op = "Save" /\ errs = <<>>
    /\ Cardinality(TagManifestIdx) = 2
    /\ \E t \in DOMAIN tagfiles :
           \E f \in DOMAIN tagfiles[t].Data : tagfiles[t].Data[f].label = "Note"

\* C4 as stated: every failure of a step of Save is in the list Save
\* returns, and every manifest is written (or its failure reported) however
\* the earlier steps went.
C4_SaveCollectsAndContinues ==
    SaveReturned =>
        /\ Len(errs) = Cardinality({i \in DOMAIN events : ~events[i].ok})
        /\ \A m \in DOMAIN Manifests :
               \E i \in At("manifest") : events[i].m = m

C10_EntryKeysAreRelative ==
    /\ \A i \in DOMAIN Manifests : \A k \in DOMAIN Manifests[i].Data : ~IsAbs(k)
    /\ (SaveReturned /\ errs = <<>>) =>
           \A i \in TagManifestIdx : BagItTxt \in DOMAIN Manifests[i].Data

Range(q) == {q[i] : i \in DOMAIN q}
\* The name of the single manifest's file, relative to the bag root.
ManifestFile == ManifestPrefix \o Manifest.algo \o TxtSuffix
\* A path is the payload directory or lies under it.
UnderPayload(p) == p = PayloadName \/ HasPrefix(p, PayloadName \o Slash)
SomeOrder == CHOOSE o \in Orders(DOMAIN tagfiles) : TRUE
Missing(f) == ~Exists(disk, Join(Path, f))

\* C5 as stated: TrackedFiles returns the registered tag file names together
\* with the manifest's file name relative to the bag root.
C5_TrackedFilesIsUnion ==
    (pc = "idle" /\ ret.op = "TrackedFiles") =>
        Range(ret.val) = DOMAIN tagfiles \cup {ManifestFile}

\* C6 as stated: Orphans returns the listed files that TrackedFiles does not
\* return, and never a registered tag file or the manifest.
C6_OrphansAreUntracked ==
    (pc = "idle" /\ ret.op = "Orphans") =>
        /\ Range(ret.val) =
               Range(ListFiles.files) \ Range(TrackedFiles(SomeOrder))
        /\ Range(ret.val) \cap (DOMAIN tagfiles \cup {ManifestFile}) = {}

\* C7 as stated: ListFiles returns no path under the payload directory and
\* the path of every other entry under the bag root, so that Orphans
\* returns no payload file.
C7_ListFilesSkipsPayload ==
    pc = "idle" =>
        /\ \A f \in Range(ListFiles.files) : ~UnderPayload(Join(Path, f))
        /\ \A q \in DOMAIN disk :
               (HasPrefix(q, Path \o Slash) /\ ~UnderPayload(q)) =>
                   Rel(Path, q).path \in Range(ListFiles.files)
        /\ ret.op = "Orphans" =>
               \A f \in Range(ret.val) : ~UnderPayload(Join(Path, f))

\* C8: ConfirmFiles reports one error per path that TrackedFiles returns and
\* that does not exist in the bag, and no other; after a Close without error
\* it reports nothing; and when one tracked tag file has been deleted and
\* the others exist it reports that path alone.
C8_ConfirmFilesReportsMissing ==
    pc = "idle" =>
        /\ ret.op = "ConfirmFiles" =>
               /\ {e.path : e \in Range(ret.errs)} =
                      {f \in Range(TrackedFiles(SomeOrder)) : Missing(f)}
               /\ Len(ret.errs) =
                      Cardinality({f \in Range(TrackedFiles(SomeOrder)) : Missing(f)})
        /\ (ret.op = "Close" /\ ret.errs = <<>>) =>
               \A o \in Orders(DOMAIN tagfiles) : ConfirmFiles(TrackedFiles(o)) = <<>>
        /\ \A t \in DOMAIN tagfiles :
               (/\ ret.op = "DeleteFile"
                /\ ret.val = <<Join(Path, t)>>
                /\ \A u \in DOMAIN tagfiles \ {t} : ~Missing(u)) =>
                   \A o \in Orders(DOMAIN tagfiles) :
                       ConfirmFiles(TrackedFiles(o)) =
                           <<Error("Unable to find", t, <<>>)>>

\* ConfirmFiles reports the one tag file that was deleted after the last
\* call on the bag, a Close without error.
C8_Witness ==
    /\ pc = "idle" /\ ret.op = "ConfirmFiles"
    /\ Len(ret.errs) = 1
    /\ ret.errs[1].path \in DOMAIN tagfiles
    /\ At("write") # {}
    /\ \A i \in DOMAIN events : events[i].ok

\* What ReadBag returned: nothing else happens under SpecRead.
ReadBagReturned == ret.op = "ReadBag"
ReadBagOpened == ReadBagReturned /\ pc = "idle"
\* The manifest files of the directory, by kind.
PayloadManifestFiles(d) == {q \in ManifestFiles \cap DOMAIN d :
                              ~HasPrefix(Base(q), TagManifestPrefix)}
TagManifestFiles(d) == {q \in ManifestFiles \cap DOMAIN d :
                          HasPrefix(Base(q), TagManifestPrefix)}
Parses(d, q) == ReadManifest(d, q).errs = <<>>
NoManifestFound == <<Error("Unable to parse a manifest", Path, <<>>)>>

\* C11: ReadBag on a bag directory with its payload directory, a tag manifest
\* that parses and no payload manifest returns the error that no manifest
\* was found, and no bag.
C11_OnlyTagManifestsFails ==
    (/\ ReadBagReturned
     /\ IsDir(disk, PayloadName)
     /\ PayloadManifestFiles(disk) = {}
     /\ TagManifestFiles(disk) # {}
     /\ \A q \in TagManifestFiles(disk) : Parses(disk, q))
    => pc = "failed" /\ ret.errs = NoManifestFound

Malformed(d) == {q \in ManifestFiles \cap DOMAIN d : ~Parses(d, q)}
ErrorPaths(es) == {es[i].path : i \in DOMAIN es}

\* C12: when ReadBag finds more than one manifest file that does not parse,
\* it fails and the failure it reports holds the parse errors of every one
\* of them.
C12_AllMalformedReported ==
    (/\ ReadBagReturned
     /\ IsDir(disk, PayloadName)
     /\ Cardinality(Malformed(disk)) > 1)
    => pc = "failed" /\ Malformed(disk) \subseteq ErrorPaths(ret.errs)

\* C13: when NewBag returns a bag, no step of the creation has failed: the
\* Save it ran on the new bag reported no error.
C13_NewBagReturnsSaveErrors ==
    (pc = "idle" /\ ret.op = "NewBag") => errs = <<>>

TagFilesOnDisk ==
    \A name \in DOMAIN tagfiles :
        /\ IsFile(disk, tagfiles[name].name)
        /\ disk[tagfiles[name].name].bytes = TagFileBytes(tagfiles[name])
ManifestsOnDisk ==
    \A i \in DOMAIN Manifests :
        /\ IsFile(disk, Manifests[i].name)
        /\ disk[Manifests[i].name].bytes = ManifestBytes(Manifests[i])
TagFilesListed ==
    \A name \in DOMAIN tagfiles : \A i \in TagManifestIdx :
        tagfiles[name].name \in DOMAIN Manifests[i].Data
Saved == TagFilesOnDisk /\ ManifestsOnDisk /\ TagFilesListed

\* C14 as stated: the saved state is terminal; an AddFile, AddDir or
\* AddTagfile that succeeds on a saved bag leaves it saved.
C14_SavedIsTerminal ==
    [][(/\ pc = "idle" /\ Saved
        /\ pc' = "idle" /\ ret'.op \in {"AddFile", "AddDir", "AddTagfile"}
        /\ ret'.errs = <<>>)
       => Saved']_vars

\* C14: the saved state is not terminal, it is what every Save without
\* error comes back to: when a Save called after other calls returns no
\* error, every manifest file holds exactly the entries of its manifest and
\* every tag manifest has an entry for every tracked tag file.
C14_SaveComesBackToSaved ==
    (pc = "idle" /\ ret.op = "Save" /\ errs = <<>>)
    => ManifestsOnDisk /\ TagFilesListed

\* An AddTagfile after the Save of NewBag, then a Save without error, on a
\* bag with tag manifests.
C14_Witness ==
    /\ pc = "idle" /\ ret.op = "Save" /\ errs = <<>>
    /\ TagManifestIdx # {}
    /\ DOMAIN tagfiles \cap TagNames # {}

\* C15: a Save that follows a Save without error, with no call in between,
\* and reports no error itself leaves every manifest's entries and every
\* manifest file's content as the first Save left them.
C15_SaveIsIdempotent ==
    (pc = "idle" /\ ret.op = "Save" /\ errs = <<>> /\ saved.ok)
    => /\ Manifests = saved.Manifests
       /\ ManifestFileBytes(Manifests, disk) = saved.files

\* Two Saves in a row, both without error, on a bag with a tag manifest
\* whose entries the second Save computes again.
C15_Witness ==
    /\ pc = "idle" /\ ret.op = "Save" /\ errs = <<>> /\ saved.ok
    /\ At("sum") # {}
    /\ \A i \in DOMAIN Manifests : Manifests[i].name \in DOMAIN saved.files

\* C17: when ReadBag returns a bag, every tracked tag file is one of the
\* names it was given, so a file of the directory that was not named is not
\* tracked; and on a directory with its payload directory and manifests that
\* all parse, ReadBag returns a bag whether the named tag files parse or not.
C17_TrackedAreKnown ==
    ReadBagReturned =>
        /\ pc = "idle" => DOMAIN tagfiles \subseteq Range(ret.val)
        /\ (/\ IsDir(disk, PayloadName)
            /\ ManifestFiles \cap DOMAIN disk # {}
            /\ Malformed(disk) = {}) => pc = "idle"

\* ReadBag returned a bag for a directory where the named bagit.txt has a
\* line that does not parse and readme.txt is present and not named.
C17_Witness ==
    /\ ReadBagOpened
    /\ BagItTxt \in Range(ret.val)
    /\ IsFile(disk, Join(Path, BagItTxt))
    /\ disk[Join(Path, BagItTxt)].bytes = MalformedTagFile
    /\ IsFile(disk, Join(Path, ReadmeTxt))
    /\ ReadmeTxt \notin DOMAIN tagfiles

\* C18: in the bag NewBag returns no two manifests have the same kind and
\* algorithm, also when the requested names repeat or differ only in letter
\* case; the algorithm names are lowercase, and there are tag manifests for
\* all the algorithms of the payload manifests or for none.
C18_OneManifestPerKindAndAlgorithm ==
    (pc = "idle" /\ ret.op = "NewBag") =>
        /\ \A i, j \in DOMAIN Manifests :
             (Manifests[i].kind = Manifests[j].kind
              /\ Manifests[i].algo = Manifests[j].algo) => i = j
        /\ \A i \in DOMAIN Manifests :
             Manifests[i].algo = ToLower(Manifests[i].algo)
        /\ \/ TagManifestIdx = {}
           \/ {Manifests[i].algo : i \in TagManifestIdx} =
              {Manifests[i].algo : i \in PayloadManifestIdx}

\* The paths of the bag's manifest files, absolute and relative to the bag.
ManifestPaths ==
    {Manifests[j].name : j \in DOMAIN Manifests}
    \cup {Rel(Path, Manifests[j].name).path : j \in DOMAIN Manifests}

\* C19: whatever names AddTagfile was called with, no tag manifest has an
\* entry for the file of a manifest of the bag, itself included.
C19_NoEntryForAManifest ==
    \A i \in TagManifestIdx : DOMAIN Manifests[i].Data \cap ManifestPaths = {}

\* C20: ReadBag on a bag directory without its payload directory returns the
\* error of NewPayload and no bag, and nothing of the manifests: no error of
\* a manifest file that does not parse is reported and no manifest is kept.
C20_NoPayloadDirFails ==
    (ReadBagReturned /\ IsDir(disk, Path) /\ ~IsDir(disk, PayloadName))
    => /\ pc = "failed"
       /\ ret.errs = <<Error("NewPayload", PayloadName, <<>>)>>
       /\ Manifests = <<>>

\* ReadBag has failed on a directory without data/ that holds a manifest
\* file that does not parse.
C20_Witness ==
    /\ ReadBagReturned /\ pc = "failed"
    /\ IsDir(disk, Path) /\ ~IsDir(disk, PayloadName)
    /\ Malformed(disk) # {}

\* C21: an AddTagfile that returns an error leaves the tracked tag files as
\* they were, so Bag.TagFile does not find the name afterwards; one that
\* returns no error has registered a new tag file under its name.
C21_AddTagfileAllOrNothing ==
    [][(pc = "idle" /\ pc' = "idle" /\ ops' = ops + 1
        /\ ret'.op = "AddTagfile")
       => IF ret'.errs # <<>>
          THEN tagfiles' = tagfiles
          ELSE \E name \in DOMAIN tagfiles' :
                 tagfiles' = SetTagFile(tagfiles, name,
                                        NewTagFile(Join(Path, name)))]_vars
====
